---- MODULE Spec2Model ----
(***************************************************************************)
(* State-machine model of the scavenger-hunt bot (src/src/main.rs).       *)
(*                                                                         *)
(* The durable store is modelled table by table (users, forums,           *)
(* submissions, judgement), each SQL statement as one atomic step.  Every  *)
(* teloxide handler is a sequence of such steps executed by one of the    *)
(* concurrently running handler tasks in Procs; the steps of different    *)
(* tasks interleave freely, as the tokio runtime allows.  Every await of  *)
(* a handler is a step of its own, with its failure as a branch of that   *)
(* step: a statement on the store, the lock, a call to the chat service   *)
(* (a reply included), a file operation.  The dispatch of an update and   *)
(* the code up to the handler's first await are part of the handler's     *)
(* first step.  A handler that decides to return before an await (a       *)
(* guard that failed) ends only in the step of that await, so the store   *)
(* and the flag may change between the decision and the return.           *)
(***************************************************************************)
EXTENDS Integers, Sequences, FiniteSets, TLC

(***************************************************************************)
(* Bounds of the model.                                                    *)
(***************************************************************************)
\* Number of handler invocations explored in one behaviour.
MaxOps == 4
\* Handler tasks that may be in flight together.
Procs == {1, 2}
\* Telegram user ids of the participants.
UserIds == {1, 2}
\* Team names are strings, kept as sequences of characters so that trim()
\* can be computed.
TeamA == <<"A">>
TeamB == <<"B">>
TeamNames == {TeamA, TeamB}
\* Arguments a participant may give to /join_team.
TeamInputs == TeamNames \cup {<<>>, <<" ">>}
\* Seed rows of table challenges (name column).
Challenges == {"c1", "c2"}
\* A challenge argument of /judge that is in no catalog row.
UnknownChallenge == "nope"
ChallengeInputs == Challenges \cup {"___unclear", "___invalid", UnknownChallenge}
\* Ids of the media messages sent in one behaviour, handed out in order.
MsgIds == {1, 2}
\* image_ref arguments of /judge; 0 is never a message id.
RefInputs == MsgIds \cup {0}
\* Shapes of the data of a callback query: no data, data that does not split
\* into three pieces, data of three pieces.
CallbackParts == {0, 1, 3}
\* An associate piece of callback data that does not parse as a u64.
NotANumber == -1
AssociateInputs == UserIds \cup {NotANumber}
\* An image_ref piece of callback data that is a number but does not parse
\* as an i32: it stands for a number past i32::MAX such as 99999999999,
\* which is past the integers of the model checker as well.
OutOfI32 == 9
CallbackRefInputs == RefInputs \cup {OutOfI32}
\* q.message = None together with q.inline_message_id = None.
NoMessage == -1
\* q.message of a callback query, given as the reference of the prompt the
\* query came from; 0: a message that is no standing prompt, or an inline
\* message (q.inline_message_id).
MessageInputs == RefInputs \cup {NoMessage}

\* "No row" / Option::None markers.
NoTeam == << "-" >>
NoForum == 0
NoProc == 0

VARIABLES
    users,               \* table users: id -> team (NoTeam: no row)
    forums,              \* table forums: set of rows [id, name, open]
    submissions,         \* table submissions: set of rows [message_id, team, user]
    judgement,           \* table judgement: set of rows
    submissions_enabled, \* the AtomicBool of main()
    lock,                \* the tokio Mutex of main(): holder or NoProc
    topics,              \* forum topics allocated in the judge chat
    forwards,            \* media forwarded to the judge chat
    prompts,             \* challenge-selection prompts posted in the judge chat
    nextTopic,           \* next thread id Telegram hands out
    nextMsg,             \* next message id Telegram hands out
    ops,                 \* handler invocations so far
    pc,                  \* position of each handler task
    arg,                 \* arguments of the running handler
    tmp,                 \* local variables of the running handler
    outcome,             \* the result a handler returned in the last step
    reply                \* the scores a handler sent in the last step

vars == <<users, forums, submissions, judgement, submissions_enabled, lock,
          topics, forwards, prompts, nextTopic, nextMsg, ops, pc, arg, tmp,
          outcome, reply>>

store == <<users, forums, submissions, judgement>>
chat == <<topics, forwards, prompts, nextTopic>>

(***************************************************************************)
(* Pure helpers.                                                           *)
(***************************************************************************)
RECURSIVE TrimStart(_)
TrimStart(s) ==
    IF s = << >> THEN s
    ELSE IF Head(s) = " " THEN TrimStart(Tail(s)) ELSE s

RECURSIVE TrimEnd(_)
TrimEnd(s) ==
    IF s = << >> THEN s
    ELSE IF s[Len(s)] = " " THEN TrimEnd(SubSeq(s, 1, Len(s) - 1)) ELSE s

\* str::trim
Trim(s) == TrimEnd(TrimStart(s))

\* Variant: team.len() == 0, without the trim.
IsEmpty(team) == Len(team) = 0

\* team.trim().len() == 0
IsBlank(team) == Len(Trim(team)) = 0

NoArg == [kind |-> "none", user |-> 0, team |-> NoTeam, msg |-> 0, ch |-> "",
          qmsg |-> 0]

\* Feedback to a submitter.  text: the directive sent as a reply to message
\* `ref`; reaction: what was done to the reactions of message `ref`
\* ("heart" set, "erase").
NoFeedback == [text |-> "none", reaction |-> "none", ref |-> 0]

\* teams, create, close: teams, forums_to_create, forums_to_close (the
\* futures still to be started);
\* created: the topics whose creation future waits at its INSERT;
\* closing: the entries whose closing future waits at its UPDATE;
\* roster, forums0: the tables as the reconciliation read them;
\* failed: the teams whose future of the reconciliation returned Err;
\* forum_id: sub_ext.forum_id of receive_submission;
\* remaining: remaining_challenges of receive_submission;
\* board: the rows of the query of /scoreboard;
\* items, total, count: the results of the three queries of /score;
\* feedback: what this call of judge() has sent to the submitter so far.
NoTmp == [teams |-> {}, create |-> {}, created |-> {}, close |-> {},
          closing |-> {}, roster |-> {}, forums0 |-> {}, failed |-> {},
          forum_id |-> NoForum, remaining |-> {}, board |-> {}, items |-> {},
          total |-> 0, count |-> 0, feedback |-> NoFeedback]

\* Nothing was sent.  kind: what the caller received in this step
\* ("scoreboard", "score", "judged" for the reply to /judge, "decision" for
\* the edited prompt message of a callback); board: the lines of
\* /scoreboard; items, total, count: the lines, the total and the
\* submission count of /score; feedback: what judge() sent to the submitter
\* in this step and, with the caller's confirmation, in the whole call.
NoReply == [kind |-> "none", board |-> {}, items |-> {}, total |-> 0,
            count |-> 0, feedback |-> NoFeedback]

Idle(p) == pc[p] = "idle"

\* A new update is handled by a free task; the tasks are interchangeable,
\* so the lowest free one takes it.
CanStart(p) ==
    /\ Idle(p)
    /\ \A q \in Procs : q < p => ~Idle(q)
    /\ ops < MaxOps

\* Handler p is invoked with arguments a and continues at l.
Begin(p, a, l) ==
    /\ ops' = ops + 1
    /\ arg' = [arg EXCEPT ![p] = a]
    /\ pc' = [pc EXCEPT ![p] = l]
    /\ outcome' = "none"
    /\ reply' = NoReply

\* Handler p is invoked and returns r at once.
BeginEnd(p, r) ==
    /\ ops' = ops + 1
    /\ pc' = pc
    /\ arg' = arg
    /\ outcome' = r
    /\ reply' = NoReply

\* Handler p returns with result r; its locals are dropped.
Finish(p, r) ==
    /\ pc' = [pc EXCEPT ![p] = "idle"]
    /\ arg' = [arg EXCEPT ![p] = NoArg]
    /\ tmp' = [tmp EXCEPT ![p] = NoTmp]
    /\ outcome' = r
    /\ reply' = NoReply

\* Handler p moves on to l.
Goto(p, l) ==
    /\ pc' = [pc EXCEPT ![p] = l]
    /\ outcome' = "none"
    /\ reply' = NoReply

Init ==
    /\ users = [u \in UserIds |-> NoTeam]
    /\ forums = {}
    /\ submissions = {}
    /\ judgement = {}
    /\ submissions_enabled = TRUE
    /\ lock = NoProc
    /\ topics = {}
    /\ forwards = {}
    /\ prompts = {}
    /\ nextTopic = 1
    /\ nextMsg = 1
    /\ ops = 0
    /\ pc = [p \in Procs |-> "idle"]
    /\ arg = [p \in Procs |-> NoArg]
    /\ tmp = [p \in Procs |-> NoTmp]
    /\ outcome = "none"
    /\ reply = NoReply

(***************************************************************************)
(* join_team                                                               *)
(***************************************************************************)
\* /join_team with a blank argument: "Please provide a team name" and
\* return; a failed send returns through `?`.
JoinTeamBlank(p, u, team) ==
    /\ CanStart(p)
    /\ IsBlank(team)
    /\ \/ BeginEnd(p, "ExternalTransportError")
       \/ BeginEnd(p, "EmptyInput")
    /\ UNCHANGED <<store, submissions_enabled, lock, chat, nextMsg, tmp>>

\* Variant: ON CONFLICT(id) DO NOTHING, the first binding stays.
UpsertUserKeep(us, u, team) == IF us[u] = NoTeam THEN [us EXCEPT ![u] = team] ELSE us

\* INSERT INTO users ... ON CONFLICT(id) DO UPDATE SET team = excluded.team
UpsertUser(us, u, team) == [us EXCEPT ![u] = team]

\* Variant: the join also rewrites the team of the participant's earlier
\* submissions.
JoinTeamRetag(p, u, team) ==
    /\ CanStart(p)
    /\ ~IsBlank(team)
    /\ \/ /\ BeginEnd(p, "Panic")
          /\ UNCHANGED <<users, submissions>>
       \/ /\ users' = UpsertUser(users, u, team)
          /\ submissions' = {IF r.user = u THEN [r EXCEPT !.team = team] ELSE r :
                                r \in submissions}
          /\ Begin(p, [NoArg EXCEPT !.kind = "join_team", !.user = u,
                                    !.team = team], "join_reply")
    /\ UNCHANGED <<forums, judgement, submissions_enabled, lock, chat, nextMsg,
                   tmp>>

\* /join_team with a name: the upsert.  A failed statement panics at
\* result.unwrap() with the roster as it was.
JoinTeamUpsert(p, u, team) ==
    /\ CanStart(p)
    /\ ~IsBlank(team)
    /\ \/ /\ BeginEnd(p, "Panic")
          /\ UNCHANGED users
       \/ /\ users' = UpsertUser(users, u, team)
          /\ Begin(p, [NoArg EXCEPT !.kind = "join_team", !.user = u,
                                    !.team = team], "join_reply")
    /\ UNCHANGED <<forums, submissions, judgement, submissions_enabled, lock,
                   chat, nextMsg, tmp>>

\* "You joined team ..."; a failed send returns through `?` before the
\* lock is requested.
JoinTeamReply(p) ==
    /\ pc[p] = "join_reply"
    /\ \/ Finish(p, "ExternalTransportError")
       \/ Goto(p, "lock_wait") /\ UNCHANGED <<arg, tmp>>
    /\ UNCHANGED <<store, submissions_enabled, lock, chat, nextMsg, ops>>

(***************************************************************************)
(* maintainer_commands: UpdateTeamForums, EnableSubmissions                *)
(***************************************************************************)
UpdateTeamForums(p) ==
    /\ CanStart(p)
    /\ Begin(p, [NoArg EXCEPT !.kind = "update_team_forums"], "lock_wait")
    /\ UNCHANGED <<store, submissions_enabled, lock, chat, nextMsg, tmp>>

EnableSubmissions(p, status) ==
    /\ CanStart(p)
    /\ submissions_enabled' = status
    /\ BeginEnd(p, "Ok")
    /\ UNCHANGED <<store, lock, chat, nextMsg, tmp>>

(***************************************************************************)
(* The lock and update_teams_in_forum                                      *)
(***************************************************************************)
\* Variant: a lock that is never waited for.
LockFreeAlways(l) == TRUE

\* tokio::sync::Mutex::lock completes only while nobody holds the mutex.
LockFree(l) == l = NoProc

\* The rows (users with a team) of table users.
UserRows(us) == {u \in UserIds : us[u] # NoTeam}

\* Teams held by at least one participant.
LiveTeams(us) == {us[u] : u \in UserRows(us)}

\* The team of the single result row when table users is empty: the
\* aggregate still returns one row, (NULL, 0), and the NULL is decoded into
\* `team: String`.  The driver either yields the empty string or reports a
\* decode error (see RecUsers).
NullTeam == << >>

\* SELECT DISTINCT team, COUNT(*) AS count FROM users: an aggregate without
\* GROUP BY, so SQLite returns ONE row, whose team is taken from an
\* arbitrary row of users.  The result is the set of possible values of
\* `teams`.
TeamsQuery(us) ==
    IF UserRows(us) = {} THEN {{NullTeam}}
    ELSE {{us[u]} : u \in UserRows(us)}

\* forum_team_names: the names of ALL rows of forums (open or not).
forum_team_names(fs) == {f.name : f \in fs}

\* Variant: the diff does not look at the existing entries.
forums_to_create_unfiltered(teams, fs) == teams

forums_to_create(teams, fs) == {t \in teams : t \notin forum_team_names(fs)}

forums_to_close(teams, fs) == {f \in fs : f.name \notin teams}

\* The positions of a task inside update_teams_in_forum, the guard held.
RecLabels == {"rec_users", "rec_forums", "rec_run"}

\* let _guard = lock.lock().await
RecLock(p) ==
    /\ pc[p] = "lock_wait"
    /\ LockFree(lock)
    /\ lock' = p
    /\ Goto(p, "rec_users")
    /\ UNCHANGED <<store, submissions_enabled, chat, nextMsg, ops, arg, tmp>>

\* The first SELECT of update_teams_in_forum and the collect into `teams`.
\* A failed statement panics at unwrap(): the task ends and the guard is
\* dropped.  With no row in users the team of the single result row is
\* NULL: either decoding fails, which panics as well, or the driver yields
\* "" and the pass goes on with that name.
RecUsers(p) ==
    /\ pc[p] = "rec_users"
    /\ \/ /\ lock' = NoProc
          /\ Finish(p, "Panic")
       \/ /\ \E teams \in TeamsQuery(users) :
                 tmp' = [tmp EXCEPT ![p].teams = teams,
                                    ![p].roster = LiveTeams(users)]
          /\ Goto(p, "rec_forums")
          /\ UNCHANGED <<arg, lock>>
    /\ UNCHANGED <<store, submissions_enabled, chat, nextMsg, ops>>

\* The second SELECT (SELECT DISTINCT id, name FROM forums) and the diff;
\* a failed statement panics at unwrap().
RecForums(p) ==
    /\ pc[p] = "rec_forums"
    /\ \/ /\ lock' = NoProc
          /\ Finish(p, "Panic")
       \/ /\ tmp' = [tmp EXCEPT
                        ![p].create = forums_to_create(tmp[p].teams, forums),
                        ![p].close = forums_to_close(tmp[p].teams, forums),
                        ![p].forums0 = forums]
          /\ Goto(p, "rec_run")
          /\ UNCHANGED <<arg, lock>>
    /\ UNCHANGED <<store, submissions_enabled, chat, nextMsg, ops>>

\* The default of column open of table forums.  The schema is created by
\* migrations that are not part of the sources; a new Channel Topology
\* Entry is open.
ForumOpenDefault == TRUE

\* Variant: the first Err ends the pass (futures::future::try_join_all
\* followed by `?`): no other future is driven further.
try_join_all(futures) == {}

\* let _ = futures::future::join_all(..).await: every future is driven to
\* completion and the Results are dropped, so after one future returned Err
\* the other futures still run.
join_all(futures) == futures

\* One future of new_teams_futures, first await: create_forum_topic.  The
\* topic exists in the judge chat from here on.
RecCreate(p) ==
    /\ pc[p] = "rec_run"
    /\ \E team \in tmp[p].create :
        \/ \* create_forum_topic fails
           /\ tmp' = [tmp EXCEPT ![p].create = join_all(@ \ {team}),
                                 ![p].created = join_all(@),
                                 ![p].close = join_all(@),
                                 ![p].closing = join_all(@),
                                 ![p].failed = @ \cup {team}]
           /\ UNCHANGED <<topics, nextTopic>>
        \/ /\ tmp' = [tmp EXCEPT ![p].create = @ \ {team},
                                 ![p].created = @ \cup
                                     {[id |-> nextTopic, name |-> team]}]
           /\ topics' = topics \cup {[id |-> nextTopic, name |-> team]}
           /\ nextTopic' = nextTopic + 1
    /\ outcome' = "none"
    /\ reply' = NoReply
    /\ UNCHANGED <<store, submissions_enabled, lock, forwards, prompts,
                   nextMsg, ops, pc, arg>>

\* INSERT INTO forums (id, name) VALUES ($1, $2); column open takes its
\* default.
InsertForum(fs, id, name) ==
    fs \cup {[id |-> id, name |-> name, open |-> ForumOpenDefault]}

\* One future of new_teams_futures, second await: the INSERT of the row of
\* the topic it created.
RecInsert(p) ==
    /\ pc[p] = "rec_run"
    /\ \E t \in tmp[p].created :
        \/ \* the INSERT fails
           /\ tmp' = [tmp EXCEPT ![p].create = join_all(@),
                                 ![p].created = join_all(@ \ {t}),
                                 ![p].close = join_all(@),
                                 ![p].closing = join_all(@),
                                 ![p].failed = @ \cup {t.name}]
           /\ UNCHANGED forums
        \/ /\ tmp' = [tmp EXCEPT ![p].created = @ \ {t}]
           /\ forums' = InsertForum(forums, t.id, t.name)
    /\ outcome' = "none"
    /\ reply' = NoReply
    /\ UNCHANGED <<users, submissions, judgement, submissions_enabled, lock,
                   chat, nextMsg, ops, pc, arg>>

\* A variant of the UPDATE that flips the flag instead of clearing it.
CloseForumToggle(fs, id) ==
    {IF f.id = id THEN [f EXCEPT !.open = ~f.open] ELSE f : f \in fs}

\* UPDATE forums SET open = false WHERE id = $1
CloseForum(fs, id) ==
    {IF f.id = id THEN [f EXCEPT !.open = FALSE] ELSE f : f \in fs}

\* One future of close_forum_topics_futures, started once every creation
\* future has finished, first await: close_forum_topic.
RecClose(p) ==
    /\ pc[p] = "rec_run"
    /\ tmp[p].create = {}
    /\ tmp[p].created = {}
    /\ \E f \in tmp[p].close :
        \/ \* close_forum_topic fails
           tmp' = [tmp EXCEPT ![p].close = join_all(@ \ {f}),
                              ![p].closing = join_all(@),
                              ![p].failed = @ \cup {f.name}]
        \/ tmp' = [tmp EXCEPT ![p].close = @ \ {f},
                              ![p].closing = @ \cup {f}]
    /\ outcome' = "none"
    /\ reply' = NoReply
    /\ UNCHANGED <<store, submissions_enabled, lock, chat, nextMsg, ops, pc,
                   arg>>

\* One future of close_forum_topics_futures, second await: the UPDATE of
\* the entry whose topic it closed.
RecUpdate(p) ==
    /\ pc[p] = "rec_run"
    /\ \E f \in tmp[p].closing :
        \/ \* the UPDATE fails
           /\ tmp' = [tmp EXCEPT ![p].close = join_all(@),
                                 ![p].closing = join_all(@ \ {f}),
                                 ![p].failed = @ \cup {f.name}]
           /\ UNCHANGED forums
        \/ /\ tmp' = [tmp EXCEPT ![p].closing = @ \ {f}]
           /\ forums' = CloseForum(forums, f.id)
    /\ outcome' = "none"
    /\ reply' = NoReply
    /\ UNCHANGED <<users, submissions, judgement, submissions_enabled, lock,
                   chat, nextMsg, ops, pc, arg>>

\* Both join_all have completed.
RecFinished(p) ==
    /\ pc[p] = "rec_run"
    /\ tmp[p].create = {}
    /\ tmp[p].created = {}
    /\ tmp[p].close = {}
    /\ tmp[p].closing = {}

\* Variant: the guard is leaked (std::mem::forget), the mutex stays locked.
RecReturnKeepLock(p) ==
    /\ RecFinished(p)
    /\ lock' = lock
    /\ Finish(p, "Ok")
    /\ UNCHANGED <<store, submissions_enabled, chat, nextMsg, ops>>

\* Ok(()) and the guard goes out of scope.
RecReturn(p) ==
    /\ RecFinished(p)
    /\ lock' = NoProc
    /\ Finish(p, "Ok")
    /\ UNCHANGED <<store, submissions_enabled, chat, nextMsg, ops>>

(***************************************************************************)
(* receive_submission                                                      *)
(***************************************************************************)
\* Variant: the flag is not consulted.
GateClosedNever(enabled) == FALSE

\* if !submissions_enabled.load(Ordering::Relaxed)
GateClosed(enabled) == ~enabled

\* A photo or video arrives as message nextMsg of user u and the handler
\* loads the flag; with the flag false it goes on to tell the sender.
SubmitGate(p, u) ==
    /\ CanStart(p)
    /\ nextMsg \in MsgIds
    /\ nextMsg' = nextMsg + 1
    /\ Begin(p, [NoArg EXCEPT !.kind = "submit", !.user = u, !.msg = nextMsg],
             IF GateClosed(submissions_enabled) THEN "sub_disabled"
                                                ELSE "sub_user")
    /\ UNCHANGED <<store, submissions_enabled, lock, chat, tmp>>

\* "Submissions are currently disabled" and return; a failed send returns
\* through `?`.
SubDisabled(p) ==
    /\ pc[p] = "sub_disabled"
    /\ \/ Finish(p, "ExternalTransportError")
       \/ Finish(p, "SubmissionsDisabled")
    /\ UNCHANGED <<store, submissions_enabled, lock, chat, nextMsg, ops>>

\* SELECT * FROM users WHERE id = $1 LIMIT 1 into `user`; a failed
\* statement returns through `?`.
SubUser(p) ==
    /\ pc[p] = "sub_user"
    /\ \/ Finish(p, "StoreError")
       \/ /\ Goto(p, IF users[arg[p].user] = NoTeam THEN "sub_noteam"
                                                    ELSE "sub_get_file")
          /\ UNCHANGED <<arg, tmp>>
    /\ UNCHANGED <<store, submissions_enabled, lock, chat, nextMsg, ops>>

\* user.is_none(): "You are not part of a team. ..." and return; a failed
\* send returns through `?`.
SubNoTeam(p) ==
    /\ pc[p] = "sub_noteam"
    /\ \/ Finish(p, "ExternalTransportError")
       \/ Finish(p, "NotRegistered")
    /\ UNCHANGED <<store, submissions_enabled, lock, chat, nextMsg, ops>>

\* get_file for the largest photo size or for the video; a failed call
\* returns through `?`.
SubGetFile(p) ==
    /\ pc[p] = "sub_get_file"
    /\ \/ Finish(p, "ExternalTransportError")
       \/ Goto(p, "sub_get_file_again") /\ UNCHANGED <<arg, tmp>>
    /\ UNCHANGED <<store, submissions_enabled, lock, chat, nextMsg, ops>>

\* get_file once more, for the id just received, into `file`.
SubGetFileAgain(p) ==
    /\ pc[p] = "sub_get_file_again"
    /\ \/ Finish(p, "ExternalTransportError")
       \/ Goto(p, "sub_chat_action") /\ UNCHANGED <<arg, tmp>>
    /\ UNCHANGED <<store, submissions_enabled, lock, chat, nextMsg, ops>>

\* send_chat_action(UploadPhoto) to the sender.
SubChatAction(p) ==
    /\ pc[p] = "sub_chat_action"
    /\ \/ Finish(p, "ExternalTransportError")
       \/ Goto(p, "sub_create_file") /\ UNCHANGED <<arg, tmp>>
    /\ UNCHANGED <<store, submissions_enabled, lock, chat, nextMsg, ops>>

\* fs::File::create under ./submissions; an io::Error returns through `?`.
SubCreateFile(p) ==
    /\ pc[p] = "sub_create_file"
    /\ \/ Finish(p, "IoError")
       \/ Goto(p, "sub_download") /\ UNCHANGED <<arg, tmp>>
    /\ UNCHANGED <<store, submissions_enabled, lock, chat, nextMsg, ops>>

\* download_file into the created file; a DownloadError returns through
\* `?`.
SubDownload(p) ==
    /\ pc[p] = "sub_download"
    /\ \/ Finish(p, "DownloadError")
       \/ Goto(p, "sub_insert") /\ UNCHANGED <<arg, tmp>>
    /\ UNCHANGED <<store, submissions_enabled, lock, chat, nextMsg, ops>>

\* Variant: the team is bound from the struct (`.bind(sub.team)`, where
\* team is ""), not selected from users.
InsertSubmissionBoundTeam(subs, us, m, u) ==
    subs \cup {[message_id |-> m, team |-> <<>>, user |-> u]}

\* INSERT INTO submissions (...) SELECT $1, team, ... FROM users WHERE id = $4
InsertSubmission(subs, us, m, u) ==
    IF us[u] = NoTeam THEN subs
    ELSE subs \cup {[message_id |-> m, team |-> us[u], user |-> u]}

\* The INSERT of the submission row; a failed statement returns through
\* `?` with nothing stored.
SubInsert(p) ==
    /\ pc[p] = "sub_insert"
    /\ \/ /\ Finish(p, "StoreError")
          /\ UNCHANGED submissions
       \/ /\ submissions' = InsertSubmission(submissions, users, arg[p].msg,
                                             arg[p].user)
          /\ Goto(p, "sub_reread")
          /\ UNCHANGED <<arg, tmp>>
    /\ UNCHANGED <<users, forums, judgement, submissions_enabled, lock, chat,
                   nextMsg, ops>>

\* The joined re-read: ... LEFT JOIN forums f ON s.team = f.name WHERE
\* s.message_id = $1 LIMIT 1.  The possible values of forum_id.
ForumIdQuery(subs, fs, m) ==
    LET matches == {f \in fs : \E s \in subs : s.message_id = m /\ s.team = f.name}
    IN  IF matches = {} THEN {NoForum} ELSE {f.id : f \in matches}

\* The joined re-read into sub_ext; a failed statement returns through `?`.
SubReread(p) ==
    /\ pc[p] = "sub_reread"
    /\ \/ Finish(p, "StoreError")
       \/ /\ \E fid \in ForumIdQuery(submissions, forums, arg[p].msg) :
                 tmp' = [tmp EXCEPT ![p].forum_id = fid]
          /\ Goto(p, "sub_forward")
          /\ UNCHANGED arg
    /\ UNCHANGED <<store, submissions_enabled, lock, chat, nextMsg, ops>>

\* Variant: the INSERT and the forward form one transaction; a failed
\* forward takes the row back.
SubForwardRollback(p) ==
    /\ pc[p] = "sub_forward"
    /\ \/ /\ Finish(p, "ExternalTransportError")
          /\ submissions' = {r \in submissions : r.message_id # arg[p].msg}
          /\ UNCHANGED forwards
       \/ /\ forwards' = forwards \cup {[message_id |-> arg[p].msg,
                                         thread |-> tmp[p].forum_id]}
          /\ Goto(p, "sub_notify")
          /\ UNCHANGED <<arg, tmp, submissions>>
    /\ UNCHANGED <<users, forums, judgement, submissions_enabled, lock, topics,
                   prompts, nextTopic, nextMsg, ops>>

\* forward_message into the judge chat, threaded when sub_ext.forum_id is
\* Some; a failed call returns through `?`.
SubForward(p) ==
    /\ pc[p] = "sub_forward"
    /\ \/ /\ Finish(p, "ExternalTransportError")
          /\ UNCHANGED forwards
       \/ /\ forwards' = forwards \cup {[message_id |-> arg[p].msg,
                                         thread |-> tmp[p].forum_id]}
          /\ Goto(p, "sub_notify")
          /\ UNCHANGED <<arg, tmp>>
    /\ UNCHANGED <<store, submissions_enabled, lock, topics, prompts, nextTopic,
                   nextMsg, ops>>

\* The submission_message reply under the forwarded message; a failed send
\* returns through `?`.
SubNotify(p) ==
    /\ pc[p] = "sub_notify"
    /\ \/ Finish(p, "ExternalTransportError")
       \/ Goto(p, "sub_remaining") /\ UNCHANGED <<arg, tmp>>
    /\ UNCHANGED <<store, submissions_enabled, lock, chat, nextMsg, ops>>

\* Variant: the sub-select joins on the submitter instead of the team.
JudgedNamesOfUser(js, subs, us, u) ==
    {j.challenge_name : j \in {r \in js :
        \E s \in subs : s.message_id = r.submission_id /\ s.user = u}}

\* The challenge names of the judgement rows joined to a submission stored
\* under the team of user u (no condition on j.valid).
JudgedNames(js, subs, us, u) ==
    {j.challenge_name : j \in {r \in js :
        \E s \in subs : s.message_id = r.submission_id /\ s.team = us[u]}}

\* SELECT name, short_name FROM challenges WHERE name NOT IN (...)
RemainingChallenges(js, subs, us, u) ==
    {c \in Challenges : c \notin JudgedNames(js, subs, us, u)}

\* The callback data of the buttons of make_keyboard: one button per
\* challenge, then "Unclear" and "Invalid".
make_keyboard(associate, reference, challenges) ==
    {[associate |-> associate, reference |-> reference, choice |-> c] :
        c \in challenges \cup {"___unclear", "___invalid"}}

\* The remaining-challenges query into remaining_challenges; a failed
\* statement returns through `?`.
SubRemaining(p) ==
    /\ pc[p] = "sub_remaining"
    /\ \/ Finish(p, "StoreError")
       \/ /\ tmp' = [tmp EXCEPT ![p].remaining =
                        RemainingChallenges(judgement, submissions, users,
                                            arg[p].user)]
          /\ Goto(p, "sub_prompt")
          /\ UNCHANGED arg
    /\ UNCHANGED <<store, submissions_enabled, lock, chat, nextMsg, ops>>

\* "Select challenge or action" with the keyboard, into the thread of
\* sub_ext.forum_id.
SubPrompt(p) ==
    /\ pc[p] = "sub_prompt"
    /\ \/ UNCHANGED prompts
       \/ prompts' = prompts \cup
             {[reference |-> arg[p].msg, associate |-> arg[p].user,
               thread |-> tmp[p].forum_id,
               keyboard |-> make_keyboard(arg[p].user, arg[p].msg,
                                          tmp[p].remaining)]}
    /\ Finish(p, IF prompts' = prompts THEN "ExternalTransportError" ELSE "Ok")
    /\ UNCHANGED <<store, submissions_enabled, lock, topics, forwards,
                   nextTopic, nextMsg, ops>>

(***************************************************************************)
(* maintainer_commands: Judge; callback_handler; judge                     *)
(***************************************************************************)
\* SELECT u.id, ... FROM submissions s LEFT JOIN users u ... WHERE
\* s.message_id = $1: the submitters of submission ref (none or one).
Associate(subs, ref) == {s.user : s \in {r \in subs : r.message_id = ref}}

\* The challenge lookup: the two sentinels are accepted directly.
ChallengeFound(ch) == ch \in {"___unclear", "___invalid"} \/ ch \in Challenges

\* match (associate, challenge): the arms in source order.
JudgeMatch(assoc, found) ==
    IF assoc # {} /\ found THEN "judge"
    ELSE IF ~found THEN "ChallengeNotFound"
    ELSE "SubmissionNotFound"

\* `associate` as the handler holds it: the user id, 0 for None.
AssociateOf(user) == IF user = 0 THEN {} ELSE {user}

\* /judge, first await: the associate lookup; a failed statement returns
\* through `?`.
JudgeCommand(p, ref, ch) ==
    /\ CanStart(p)
    /\ \/ BeginEnd(p, "StoreError")
       \/ LET assoc == Associate(submissions, ref)
          IN  \E u \in (IF assoc = {} THEN {0} ELSE assoc) :
                  Begin(p, [NoArg EXCEPT !.kind = "judge_cmd", !.user = u,
                                         !.msg = ref, !.ch = ch],
                        "judge_challenge")
    /\ UNCHANGED <<store, submissions_enabled, lock, chat, nextMsg, tmp>>

\* /judge, the challenge: a sentinel is taken as it is, any other name is
\* looked up in the catalog (a failed statement returns through `?`);
\* then the match on (associate, challenge).
JudgeChallenge(p) ==
    /\ pc[p] = "judge_challenge"
    /\ \/ /\ arg[p].ch \notin {"___unclear", "___invalid"}
          /\ Finish(p, "StoreError")
       \/ /\ Goto(p, IF JudgeMatch(AssociateOf(arg[p].user),
                                    ChallengeFound(arg[p].ch)) = "judge"
                     THEN "judge" ELSE "judge_notfound")
          /\ UNCHANGED <<arg, tmp>>
    /\ UNCHANGED <<store, submissions_enabled, lock, chat, nextMsg, ops>>

\* The arms (_, None) and (None, _): "Challenge not found" or "Submission
\* not found"; a failed send returns through `?`.
JudgeNotFound(p) ==
    /\ pc[p] = "judge_notfound"
    /\ \/ Finish(p, "ExternalTransportError")
       \/ Finish(p, JudgeMatch(AssociateOf(arg[p].user),
                               ChallengeFound(arg[p].ch)))
    /\ UNCHANGED <<store, submissions_enabled, lock, chat, nextMsg, ops>>

\* A callback query arrives and its handler runs up to its first await.
\* parts: the number of pieces raw_choice splits into at "###" (0 stands
\* for q.data = None); associate, image_ref and choice: the three pieces.
\* The handler looks nothing up: without data it returns Ok,
\* assert_eq!(parts.len(), 3) panics on any other number of pieces, and
\* otherwise answer_callback_query is sent.  message: q.message (see
\* MessageInputs); it is chosen by the sender of the query independently of
\* the data.
Callback(p, parts, associate, image_ref, choice, message) ==
    /\ CanStart(p)
    /\ IF parts = 0 THEN BeginEnd(p, "Ok")
       ELSE IF parts # 3 THEN BeginEnd(p, "Panic")
       ELSE Begin(p, [NoArg EXCEPT !.kind = "callback", !.user = associate,
                                   !.msg = image_ref, !.ch = choice,
                                   !.qmsg = message],
                  "callback_answer")
    /\ UNCHANGED <<store, submissions_enabled, lock, chat, nextMsg, tmp>>

\* callback_query.await?: answer_callback_query returns; a failed call
\* returns through `?`, otherwise judge() is called with the pieces.
CallbackAnswer(p) ==
    /\ pc[p] = "callback_answer"
    /\ \/ Finish(p, "ExternalTransportError")
       \/ /\ Goto(p, "judge")
          /\ UNCHANGED <<arg, tmp>>
    /\ UNCHANGED <<store, submissions_enabled, lock, chat, nextMsg, ops>>

\* The arguments of the feedback calls of judge():
\* UserId(associate.parse::<u64>().unwrap()) and
\* MessageId(submission_ref.parse::<i32>().unwrap()); either unwrap panics
\* before the call is made.
FeedbackArgsPanic(associate, submission_ref) ==
    associate = NotANumber \/ submission_ref = OutOfI32

\* Variant: every judgement is worth a point.
JudgePointsAlways(ch) == 1

\* let mut points = 1; let mut valid = true; if sentinel { 0, false }
JudgePoints(ch) == IF ch = "___unclear" \/ ch = "___invalid" THEN 0 ELSE 1
JudgeValid(ch) == ~(ch = "___unclear" \/ ch = "___invalid")

\* Variant: a plain INSERT into a table without the unique key.
InsertJudgement(js, ref, ch, points, valid) ==
    js \cup {[submission_id |-> ref, challenge_name |-> ch,
              points |-> points, valid |-> valid]}

\* INSERT INTO judgement (...) VALUES ($1, $2, $3, $4)
\* ON CONFLICT(submission_id) DO UPDATE SET challenge_name = excluded.challenge_name
UpsertJudgement(js, ref, ch, points, valid) ==
    IF \E j \in js : j.submission_id = ref
    THEN {IF j.submission_id = ref THEN [j EXCEPT !.challenge_name = ch] ELSE j :
             j \in js}
    ELSE js \cup {[submission_id |-> ref, challenge_name |-> ch,
                   points |-> points, valid |-> valid]}

\* Variant: every judgement is answered with the heart.
FeedbackHeart(ref, ch) == [text |-> "none", reaction |-> "heart", ref |-> ref]

\* The feedback of judge(), chosen from the locals `valid` and `challenge`:
\* if valid == false, send_message with the sentinel's directive as a reply
\* to the submission and set_message_reaction(..).erase(); else
\* set_message_reaction with the heart.
Feedback(ref, ch) ==
    IF ~JudgeValid(ch)
    THEN [text |-> IF ch = "___unclear" THEN "unclear" ELSE "invalid",
          reaction |-> "erase", ref |-> ref]
    ELSE [text |-> "none", reaction |-> "heart", ref |-> ref]

\* judge(), first await: the upsert.  An error of the statement returns
\* through `?` and through the caller's `judge(..).await?`.
JudgeUpsert(p) ==
    /\ pc[p] = "judge"
    /\ \/ /\ Finish(p, "StoreError")
          /\ UNCHANGED judgement
       \/ /\ judgement' = UpsertJudgement(judgement, arg[p].msg, arg[p].ch,
                                          JudgePoints(arg[p].ch),
                                          JudgeValid(arg[p].ch))
          /\ Goto(p, IF Feedback(arg[p].msg, arg[p].ch).text # "none"
                     THEN "judge_directive" ELSE "judge_reaction")
          /\ UNCHANGED <<arg, tmp>>
    /\ UNCHANGED <<users, forums, submissions, submissions_enabled, lock,
                   chat, nextMsg, ops>>

\* judge(), if valid == false: send_message with the directive as a reply
\* to the submission.  An associate or a submission_ref that does not parse
\* panics before anything is sent.
JudgeDirective(p) ==
    /\ pc[p] = "judge_directive"
    /\ LET fb == [Feedback(arg[p].msg, arg[p].ch) EXCEPT !.reaction = "none"]
       IN  IF FeedbackArgsPanic(arg[p].user, arg[p].msg)
           THEN Finish(p, "Panic") ELSE
           \/ Finish(p, "ExternalTransportError")
           \/ /\ tmp' = [tmp EXCEPT ![p].feedback = fb]
              /\ pc' = [pc EXCEPT ![p] = "judge_reaction"]
              /\ outcome' = "none"
              /\ reply' = [NoReply EXCEPT !.feedback = fb]
              /\ UNCHANGED arg
    /\ UNCHANGED <<store, submissions_enabled, lock, chat, nextMsg, ops>>

\* judge(): set_message_reaction on the submission, erase() after a
\* directive, the heart otherwise; the arguments are parsed again.  With
\* the reaction set judge() returns Ok; a callback query that has neither
\* q.message nor q.inline_message_id awaits nothing more and its handler
\* returns Ok at once.
JudgeReaction(p) ==
    /\ pc[p] = "judge_reaction"
    /\ LET fb == Feedback(arg[p].msg, arg[p].ch)
       IN  IF FeedbackArgsPanic(arg[p].user, arg[p].msg)
           THEN Finish(p, "Panic") ELSE
           \/ Finish(p, "ExternalTransportError")
           \/ /\ reply' = [NoReply EXCEPT
                              !.feedback = [fb EXCEPT !.text = "none"]]
              /\ IF arg[p].kind = "callback" /\ arg[p].qmsg = NoMessage
                 THEN /\ pc' = [pc EXCEPT ![p] = "idle"]
                      /\ arg' = [arg EXCEPT ![p] = NoArg]
                      /\ tmp' = [tmp EXCEPT ![p] = NoTmp]
                      /\ outcome' = "Ok"
                 ELSE /\ tmp' = [tmp EXCEPT ![p].feedback = fb]
                      /\ pc' = [pc EXCEPT ![p] = "judge_confirm"]
                      /\ outcome' = "none"
                      /\ UNCHANGED arg
    /\ UNCHANGED <<store, submissions_enabled, lock, chat, nextMsg, ops>>

\* The caller's confirmation once judge() returned Ok: /judge replies
\* "Submission successfully judged", the callback edits the prompt message
\* (edit_message_text) or the inline message (edit_message_text_inline) to
\* "Decision ...", which drops its keyboard: the edited message is the
\* message the query came from, whatever its data names.
JudgeConfirm(p) ==
    /\ pc[p] = "judge_confirm"
    /\ pc' = [pc EXCEPT ![p] = "idle"]
    /\ arg' = [arg EXCEPT ![p] = NoArg]
    /\ tmp' = [tmp EXCEPT ![p] = NoTmp]
    /\ \/ /\ outcome' = "ExternalTransportError"
          /\ reply' = NoReply
          /\ UNCHANGED prompts
       \/ /\ outcome' = "Ok"
          /\ reply' = [NoReply EXCEPT
                          !.kind = IF arg[p].kind = "callback"
                                   THEN "decision" ELSE "judged",
                          !.feedback = tmp[p].feedback]
          /\ IF arg[p].kind = "callback"
             THEN prompts' = {pr \in prompts : pr.reference # arg[p].qmsg}
             ELSE UNCHANGED prompts
    /\ UNCHANGED <<store, submissions_enabled, lock, topics, forwards,
                   nextTopic, nextMsg, ops>>

(***************************************************************************)
(* Scores: maintainer_commands Scoreboard, participant_commands_handler    *)
(* Score                                                                   *)
(***************************************************************************)
\* FROM judgement j LEFT JOIN submissions s ON j.submission_id = s.message_id
\* LEFT JOIN users u ON s.team = u.team: one row for every judgement, the
\* submission of its id and each user whose team is the team stored on the
\* submission; a side without a match is NULL (team NoTeam, user 0).
ScoreJoin(js, subs, us) ==
    UNION {
        LET ss == {s \in subs : s.message_id = j.submission_id}
        IN  IF ss = {} THEN {[j |-> j, team |-> NoTeam, user |-> 0]}
            ELSE UNION {
                LET uu == {u \in UserIds : us[u] = s.team}
                IN  IF uu = {} THEN {[j |-> j, team |-> s.team, user |-> 0]}
                    ELSE {[j |-> j, team |-> s.team, user |-> u] : u \in uu}
                : s \in ss}
        : j \in js}

\* SUM(j.points) over a set of joined rows.
RECURSIVE SumPoints(_)
SumPoints(rows) ==
    IF rows = {} THEN 0
    ELSE LET r == CHOOSE x \in rows : TRUE
         IN  r.j.points + SumPoints(rows \ {r})

\* SELECT s.team, SUM(j.points) as score ... WHERE j.valid = 1 GROUP BY s.team
Leaderboard(js, subs, us) ==
    LET rows == {r \in ScoreJoin(js, subs, us) : r.j.valid}
    IN  {[team |-> t, score |-> SumPoints({r \in rows : r.team = t})] :
            t \in {r.team : r \in rows}}

\* /scoreboard: the query; a failed statement returns through `?`.
Scoreboard(p) ==
    /\ CanStart(p)
    /\ \/ BeginEnd(p, "StoreError") /\ UNCHANGED tmp
       \/ /\ Begin(p, [NoArg EXCEPT !.kind = "scoreboard"], "scoreboard_reply")
          /\ tmp' = [tmp EXCEPT ![p].board =
                        Leaderboard(judgement, submissions, users)]
    /\ UNCHANGED <<store, submissions_enabled, lock, chat, nextMsg>>

\* /scoreboard: the "Scoreboard:" message with the rows of the query; a
\* failed send returns through `?`.
ScoreboardReply(p) ==
    /\ pc[p] = "scoreboard_reply"
    /\ pc' = [pc EXCEPT ![p] = "idle"]
    /\ arg' = [arg EXCEPT ![p] = NoArg]
    /\ tmp' = [tmp EXCEPT ![p] = NoTmp]
    /\ \/ /\ outcome' = "ExternalTransportError"
          /\ reply' = NoReply
       \/ /\ outcome' = "Ok"
          /\ reply' = [NoReply EXCEPT !.kind = "scoreboard",
                                      !.board = tmp[p].board]
    /\ UNCHANGED <<store, submissions_enabled, lock, chat, nextMsg, ops>>

\* ... WHERE u.id = $1 AND j.valid = 1
ScoreRows(js, subs, us, u) ==
    {r \in ScoreJoin(js, subs, us) : r.user = u /\ r.j.valid}

\* SELECT COUNT(*) FROM submissions s LEFT JOIN users u ON s.team = u.team
\* WHERE u.id = $1
SubmissionCount(subs, us, u) == Cardinality({s \in subs : s.team = us[u]})

\* /score, first query: the judged challenges of the caller's team; a
\* failed statement returns through `?`.
ScoreItems(p, u) ==
    /\ CanStart(p)
    /\ \/ BeginEnd(p, "StoreError") /\ UNCHANGED tmp
       \/ /\ Begin(p, [NoArg EXCEPT !.kind = "score", !.user = u],
                    "score_total")
          /\ tmp' = [tmp EXCEPT ![p].items =
                        {[challenge_name |-> r.j.challenge_name,
                          points |-> r.j.points] :
                            r \in ScoreRows(judgement, submissions, users, u)}]
    /\ UNCHANGED <<store, submissions_enabled, lock, chat, nextMsg>>

\* /score, second query: SUM(j.points), which is NULL when no row is
\* selected.  The NULL is decoded into `score: i32`: the driver either
\* reports a decode error or yields 0.  A failed statement, the decode
\* error included, returns through `?`.
ScoreTotal(p) ==
    /\ pc[p] = "score_total"
    /\ LET rows == ScoreRows(judgement, submissions, users, arg[p].user)
       IN  \/ Finish(p, "StoreError")
           \/ /\ tmp' = [tmp EXCEPT ![p].total = SumPoints(rows)]
              /\ Goto(p, "score_count")
              /\ UNCHANGED arg
    /\ UNCHANGED <<store, submissions_enabled, lock, chat, nextMsg, ops>>

\* /score, third query: the number of submissions of the caller's team; a
\* failed statement returns through `?`.
ScoreCount(p) ==
    /\ pc[p] = "score_count"
    /\ \/ Finish(p, "StoreError")
       \/ /\ tmp' = [tmp EXCEPT ![p].count =
                        SubmissionCount(submissions, users, arg[p].user)]
          /\ Goto(p, "score_reply")
          /\ UNCHANGED arg
    /\ UNCHANGED <<store, submissions_enabled, lock, chat, nextMsg, ops>>

\* /score: the message with the lines, the count and the total; a failed
\* send returns through `?`.
ScoreReply(p) ==
    /\ pc[p] = "score_reply"
    /\ pc' = [pc EXCEPT ![p] = "idle"]
    /\ arg' = [arg EXCEPT ![p] = NoArg]
    /\ tmp' = [tmp EXCEPT ![p] = NoTmp]
    /\ \/ /\ outcome' = "ExternalTransportError"
          /\ reply' = NoReply
       \/ /\ outcome' = "Ok"
          /\ reply' = [NoReply EXCEPT !.kind = "score",
                                      !.items = tmp[p].items,
                                      !.total = tmp[p].total,
                                      !.count = tmp[p].count]
    /\ UNCHANGED <<store, submissions_enabled, lock, chat, nextMsg, ops>>

(***************************************************************************)
(* The dispatcher                                                          *)
(***************************************************************************)
Next ==
    \E p \in Procs :
        \/ \E u \in UserIds, team \in TeamInputs :
              JoinTeamBlank(p, u, team) \/ JoinTeamUpsert(p, u, team)
        \/ JoinTeamReply(p)
        \/ UpdateTeamForums(p)
        \/ \E status \in BOOLEAN : EnableSubmissions(p, status)
        \/ RecLock(p)
        \/ RecUsers(p)
        \/ RecForums(p)
        \/ RecCreate(p)
        \/ RecInsert(p)
        \/ RecClose(p)
        \/ RecUpdate(p)
        \/ RecReturn(p)
        \/ \E u \in UserIds : SubmitGate(p, u)
        \/ SubDisabled(p)
        \/ SubUser(p)
        \/ SubNoTeam(p)
        \/ SubGetFile(p)
        \/ SubGetFileAgain(p)
        \/ SubChatAction(p)
        \/ SubCreateFile(p)
        \/ SubDownload(p)
        \/ SubInsert(p)
        \/ SubReread(p)
        \/ SubForward(p)
        \/ SubNotify(p)
        \/ SubRemaining(p)
        \/ SubPrompt(p)
        \/ \E ref \in RefInputs, ch \in ChallengeInputs : JudgeCommand(p, ref, ch)
        \/ \E parts \in CallbackParts, associate \in AssociateInputs,
              image_ref \in CallbackRefInputs, message \in MessageInputs,
              choice \in ChallengeInputs :
                 Callback(p, parts, associate, image_ref, choice, message)
        \/ CallbackAnswer(p)
        \/ JudgeChallenge(p)
        \/ JudgeNotFound(p)
        \/ JudgeUpsert(p)
        \/ JudgeDirective(p)
        \/ JudgeReaction(p)
        \/ JudgeConfirm(p)
        \/ Scoreboard(p)
        \/ ScoreboardReply(p)
        \/ \E u \in UserIds : ScoreItems(p, u)
        \/ ScoreTotal(p)
        \/ ScoreCount(p)
        \/ ScoreReply(p)

\* The whole bot: every handler, from the state after start-up.
Spec == Init /\ [][Next]_vars

(***************************************************************************)
(* Topology: only /join_team with a team name and /update_team_forums are *)
(* issued.  The other handlers write none of users, forums, topics, lock. *)
(***************************************************************************)
\* The joins of the specifications below: participant 1 joins either
\* team, participant 2 joins team A.
RosterJoins == {<<1, TeamA>>, <<1, TeamB>>, <<2, TeamA>>}

NextTopology ==
    \E p \in Procs :
        \/ \E j \in RosterJoins : JoinTeamUpsert(p, j[1], j[2])
        \/ JoinTeamReply(p)
        \/ UpdateTeamForums(p)
        \/ RecLock(p)
        \/ RecUsers(p)
        \/ RecForums(p)
        \/ RecCreate(p)
        \/ RecInsert(p)
        \/ RecClose(p)
        \/ RecUpdate(p)
        \/ RecReturn(p)

SpecTopology == Init /\ [][NextTopology]_vars

(***************************************************************************)
(* Blank and named joins: participant 1 sends /join_team with every kind  *)
(* of argument.                                                            *)
(***************************************************************************)
NextBlank ==
    \E p \in Procs :
        \/ \E team \in TeamInputs :
              JoinTeamBlank(p, 1, team) \/ JoinTeamUpsert(p, 1, team)
        \/ JoinTeamReply(p)
        \/ RecLock(p)
        \/ RecUsers(p)
        \/ RecForums(p)
        \/ RecCreate(p)
        \/ RecInsert(p)
        \/ RecClose(p)
        \/ RecUpdate(p)
        \/ RecReturn(p)

SpecBlank == Init /\ [][NextBlank]_vars

(***************************************************************************)
(* Concurrent joins with a chat service and a store that never fail: every *)
(* statement succeeds, every reply is delivered and every call of a        *)
(* reconciliation succeeds.                                                *)
(***************************************************************************)
NextJoins ==
    \E p \in Procs :
        \/ \E u \in UserIds, team \in TeamNames :
              JoinTeamUpsert(p, u, team) /\ outcome' = "none"
        \/ JoinTeamReply(p) /\ outcome' = "none"
        \/ RecLock(p)
        \/ RecUsers(p) /\ outcome' = "none"
        \/ RecForums(p) /\ outcome' = "none"
        \/ RecCreate(p) /\ tmp'[p].failed = {}
        \/ RecInsert(p) /\ tmp'[p].failed = {}
        \/ RecClose(p) /\ tmp'[p].failed = {}
        \/ RecUpdate(p) /\ tmp'[p].failed = {}
        \/ RecReturn(p)

SpecJoins == Init /\ [][NextJoins]_vars

(***************************************************************************)
(* The lock over time: participant 1 joins and changes team, a maintainer *)
(* sends /update_team_forums.                                              *)
(***************************************************************************)
NextLock ==
    \E p \in Procs :
        \/ \E team \in TeamNames : JoinTeamUpsert(p, 1, team)
        \/ JoinTeamReply(p)
        \/ UpdateTeamForums(p)
        \/ RecLock(p)
        \/ RecUsers(p)
        \/ RecForums(p)
        \/ RecCreate(p)
        \/ RecInsert(p)
        \/ RecClose(p)
        \/ RecUpdate(p)
        \/ RecReturn(p)

\* The scheduling the runtime gives: a call to the chat service or to the
\* store returns, so a reconciliation that holds the lock goes on (weak
\* fairness); tokio's Mutex hands the lock out in FIFO order, so a task
\* that waits for it while it is released again and again gets it (strong
\* fairness).
FairLock ==
    \A p \in Procs :
        /\ WF_vars(RecUsers(p))
        /\ WF_vars(RecForums(p))
        /\ WF_vars(RecCreate(p))
        /\ WF_vars(RecInsert(p))
        /\ WF_vars(RecClose(p))
        /\ WF_vars(RecUpdate(p))
        /\ WF_vars(RecReturn(p))
        /\ SF_vars(RecLock(p))

SpecLockFair == Init /\ [][NextLock]_vars /\ FairLock

(***************************************************************************)
(* The gate and the guards of a submission.  User 1 joined team A first   *)
(* (topic 1 was created for it); user 2 then joined A as well, or has not *)
(* joined.  Maintainers switch the flag, participants submit; no further  *)
(* /join_team is issued and nothing is judged.                            *)
(***************************************************************************)
InitGate ==
    /\ users \in {[u \in UserIds |-> IF u = 1 THEN TeamA ELSE t] :
                    t \in {TeamA, NoTeam}}
    /\ forums = {[id |-> 1, name |-> TeamA, open |-> TRUE]}
    /\ submissions = {}
    /\ judgement = {}
    /\ submissions_enabled = TRUE
    /\ lock = NoProc
    /\ topics = {[id |-> 1, name |-> TeamA]}
    /\ forwards = {}
    /\ prompts = {}
    /\ nextTopic = 2
    /\ nextMsg = 1
    /\ ops = 0
    /\ pc = [p \in Procs |-> "idle"]
    /\ arg = [p \in Procs |-> NoArg]
    /\ tmp = [p \in Procs |-> NoTmp]
    /\ outcome = "none"
    /\ reply = NoReply

NextGate ==
    \E p \in Procs :
        \/ \E status \in BOOLEAN : EnableSubmissions(p, status)
        \/ \E u \in UserIds : SubmitGate(p, u)
        \/ SubDisabled(p)
        \/ SubUser(p)
        \/ SubNoTeam(p)
        \/ SubGetFile(p)
        \/ SubGetFileAgain(p)
        \/ SubChatAction(p)
        \/ SubCreateFile(p)
        \/ SubDownload(p)
        \/ SubInsert(p)
        \/ SubReread(p)
        \/ SubForward(p)
        \/ SubNotify(p)
        \/ SubRemaining(p)
        \/ SubPrompt(p)

SpecGate == InitGate /\ [][NextGate]_vars

(***************************************************************************)
(* Ledger: submissions and judgements once both participants have joined  *)
(* team A, with the flag true.  No further /join_team is issued.          *)
(***************************************************************************)
InitLedger == InitGate /\ users[2] = TeamA

\* The challenge arguments of /judge in this specification: a catalog
\* challenge and a sentinel.  The other catalog challenge and the other
\* sentinel are chosen through the buttons of a prompt: the callback
\* queries of this specification are presses of buttons the bot posted.
\* The image_ref arguments are the message ids, stored as a submission or
\* not (yet).
LedgerJudgeArgs == {"c1", "___unclear"}

\* The buttons of the prompts that stand in the judge chat; the reference
\* of a button is that of its prompt.
PostedButtons == UNION {pr.keyboard : pr \in prompts}

NextLedger ==
    \E p \in Procs :
        \/ \E u \in UserIds : SubmitGate(p, u)
        \/ SubUser(p)
        \/ SubGetFile(p)
        \/ SubGetFileAgain(p)
        \/ SubChatAction(p)
        \/ SubCreateFile(p)
        \/ SubDownload(p)
        \/ SubInsert(p)
        \/ SubReread(p)
        \/ SubForward(p)
        \/ SubNotify(p)
        \/ SubRemaining(p)
        \/ SubPrompt(p)
        \/ \E ref \in MsgIds, ch \in LedgerJudgeArgs : JudgeCommand(p, ref, ch)
        \/ \E b \in PostedButtons :
              Callback(p, 3, b.associate, b.reference, b.choice, b.reference)
        \/ CallbackAnswer(p)
        \/ JudgeChallenge(p)
        \/ JudgeNotFound(p)
        \/ JudgeUpsert(p)
        \/ JudgeDirective(p)
        \/ JudgeReaction(p)
        \/ JudgeConfirm(p)

SpecLedger == InitLedger /\ [][NextLedger]_vars

(***************************************************************************)
(* Roster changes and submissions: participants join and change team and *)
(* participant 1 submits, once user 1 has joined team A.  Nothing is      *)
(* judged.                                                                 *)
(***************************************************************************)
NextRoster ==
    \E p \in Procs :
        \/ \E j \in RosterJoins : JoinTeamUpsert(p, j[1], j[2])
        \/ JoinTeamReply(p)
        \/ RecLock(p)
        \/ RecUsers(p)
        \/ RecForums(p)
        \/ RecCreate(p)
        \/ RecInsert(p)
        \/ RecClose(p)
        \/ RecUpdate(p)
        \/ RecReturn(p)
        \/ SubmitGate(p, 1)
        \/ SubUser(p)
        \/ SubGetFile(p)
        \/ SubGetFileAgain(p)
        \/ SubChatAction(p)
        \/ SubCreateFile(p)
        \/ SubDownload(p)
        \/ SubInsert(p)
        \/ SubReread(p)
        \/ SubForward(p)
        \/ SubNotify(p)
        \/ SubRemaining(p)
        \/ SubPrompt(p)

\* User 2 has not joined yet.
InitRoster == InitGate /\ users[2] = NoTeam

SpecRoster == InitRoster /\ [][NextRoster]_vars

(***************************************************************************)
(* Scores: user 1 of team A has sent photo 1, which was stored, forwarded *)
(* into topic 1 and prompted for (a state SpecLedger reaches).  From      *)
(* there participant 1 moves to team B, maintainers judge with /judge,    *)
(* and the scores are asked for.                                           *)
(***************************************************************************)
InitScore ==
    /\ users \in {[u \in UserIds |-> IF u = 1 THEN TeamA ELSE t] :
                    t \in TeamNames \cup {NoTeam}}
    /\ forums = {[id |-> 1, name |-> TeamA, open |-> TRUE]}
    /\ submissions = {[message_id |-> 1, team |-> TeamA, user |-> 1]}
    /\ judgement = {}
    /\ submissions_enabled = TRUE
    /\ lock = NoProc
    /\ topics = {[id |-> 1, name |-> TeamA]}
    /\ forwards = {[message_id |-> 1, thread |-> 1]}
    /\ prompts = {[reference |-> 1, associate |-> 1, thread |-> 1,
                   keyboard |-> make_keyboard(1, 1, Challenges)]}
    /\ nextTopic = 2
    /\ nextMsg = 2
    /\ ops = 0
    /\ pc = [p \in Procs |-> "idle"]
    /\ arg = [p \in Procs |-> NoArg]
    /\ tmp = [p \in Procs |-> NoTmp]
    /\ outcome = "none"
    /\ reply = NoReply

\* The challenge arguments of /judge in this specification; the image_ref
\* is the stored submission.
ScoreJudgeArgs == {"c1", "___invalid"}

NextScore ==
    \E p \in Procs :
        \/ JoinTeamUpsert(p, 1, TeamB)
        \/ JoinTeamReply(p)
        \/ RecLock(p)
        \/ RecUsers(p)
        \/ RecForums(p)
        \/ RecCreate(p)
        \/ RecInsert(p)
        \/ RecClose(p)
        \/ RecUpdate(p)
        \/ RecReturn(p)
        \/ \E ch \in ScoreJudgeArgs : JudgeCommand(p, 1, ch)
        \/ JudgeChallenge(p)
        \/ JudgeUpsert(p)
        \/ JudgeDirective(p)
        \/ JudgeReaction(p)
        \/ JudgeConfirm(p)
        \/ Scoreboard(p)
        \/ ScoreboardReply(p)
        \/ \E u \in UserIds : ScoreItems(p, u)
        \/ ScoreTotal(p)
        \/ ScoreCount(p)
        \/ ScoreReply(p)

SpecScore == InitScore /\ [][NextScore]_vars

(***************************************************************************)
(* Resolution: from the same state, maintainers judge with /judge, with   *)
(* every kind of image_ref and challenge argument, and callback queries   *)
(* arrive with every kind of data (the data of a callback query is chosen *)
(* by the client that sends it and need not be that of a posted button).  *)
(***************************************************************************)
\* The inputs of this specification.  image_ref: the stored submission and
\* an id that no message has; challenge arguments of /judge: a catalog
\* challenge, a sentinel and a name that is in no catalog row.
ResolveRefs == {1, 0}
ResolveJudgeArgs == {"c1", "___unclear", UnknownChallenge}
\* The callback queries, as <<parts, associate, image_ref, choice, message>>:
\* one without data, one whose data has no "###", the press of button c2 of
\* the prompt of submission 1, and four with data of no posted button (an
\* id that no message has, sent from a message that is no prompt; a name
\* that is in no catalog row, sent without a message; an associate that is
\* no number; an id that is no i32).
ResolveCallbacks ==
    {<<0, 1, 1, "c2", 1>>, <<1, 1, 1, "c2", 1>>, <<3, 1, 1, "c2", 1>>,
     <<3, 1, 0, "c2", 0>>, <<3, 1, 1, UnknownChallenge, NoMessage>>,
     <<3, NotANumber, 1, "c2", 1>>, <<3, 1, OutOfI32, "c2", 1>>}

NextResolve ==
    \E p \in Procs :
        \/ \E ref \in ResolveRefs, ch \in ResolveJudgeArgs : JudgeCommand(p, ref, ch)
        \/ \E c \in ResolveCallbacks : Callback(p, c[1], c[2], c[3], c[4], c[5])
        \/ CallbackAnswer(p)
        \/ JudgeChallenge(p)
        \/ JudgeNotFound(p)
        \/ JudgeUpsert(p)
        \/ JudgeDirective(p)
        \/ JudgeReaction(p)
        \/ JudgeConfirm(p)

SpecResolve == InitScore /\ [][NextResolve]_vars

(***************************************************************************)
(* Properties: Judgement Ledger                                            *)
(***************************************************************************)
\* The judgement rows stored for submission m.
JudgementsOf(m) == {j \in judgement : j.submission_id = m}

\* C1: whenever a Judge call completes its write, the stored judgement of
\* that submission carries the call's challenge name together with the
\* points and the validity flag that challenge determines (last write
\* wins on all three fields).
C1_LastWriteWins ==
    [][\A p \in Procs :
          (pc[p] = "judge" /\ pc'[p] \in {"judge_directive", "judge_reaction"}) =>
              \E j \in judgement' :
                  /\ j.submission_id = arg[p].msg
                  /\ j.challenge_name = arg[p].ch
                  /\ j.points = JudgePoints(arg[p].ch)
                  /\ j.valid = JudgeValid(arg[p].ch)]_vars

\* C2: in every reachable state the ledger holds at most one judgement row
\* per submission id, whatever the interleaving of the Judge calls.
C2_OneJudgementPerSubmission ==
    \A m \in MsgIds : Cardinality(JudgementsOf(m)) <= 1

\* A submission already has its judgement row while two further Judge
\* calls for it, one from /judge and one from a prompt button, are in
\* flight together.
C2_Witness ==
    \E m \in MsgIds :
        /\ JudgementsOf(m) # {}
        /\ pc[1] = "judge" /\ arg[1].msg = m
        /\ pc[2] = "judge" /\ arg[2].msg = m
        /\ arg[1].kind # arg[2].kind

(***************************************************************************)
(* Properties: Channel Topology Synchronizer                               *)
(***************************************************************************)
OpenEntries(fs, team) == {f \in fs : f.name = team /\ f.open}

\* C3: at most one open Channel Topology Entry exists per team name, after
\* any sequence of reconciliations.
C3_OneOpenEntryPerTeam ==
    \A team \in forum_team_names(forums) :
        Cardinality(OpenEntries(forums, team)) <= 1

\* Entries exist for both teams, one of them closed, and a reconciliation
\* holds the lock while another one waits for it.
C3_Witness ==
    /\ \E f \in forums : f.open
    /\ \E f \in forums : ~f.open
    /\ \E p, q \in Procs : pc[p] = "rec_run" /\ pc[q] = "lock_wait"

\* C4: two executions of the reconciliation body (read roster, read
\* topology, diff, create and close) are never in progress together, and
\* the one in progress is the holder of the lock.
C4_MutualExclusion ==
    \A p, q \in Procs :
        (pc[p] \in RecLabels /\ pc[q] \in RecLabels) => (p = q /\ lock = p)

\* A /join_team reconciliation runs while /update_team_forums waits for
\* the lock.
C4_Witness ==
    \E p, q \in Procs :
        /\ pc[p] = "rec_run" /\ arg[p].kind = "join_team"
        /\ pc[q] = "lock_wait" /\ arg[q].kind = "update_team_forums"

\* C5: when a reconciliation in which no call failed has finished, every
\* team held by a participant (as the reconciliation read the roster) has
\* an open entry.
C5_EveryTeamGetsOpenEntry ==
    \A p \in Procs :
        (RecFinished(p) /\ tmp[p].failed = {}) =>
            \A team \in tmp[p].roster : OpenEntries(forums, team) # {}

\* C6: when a reconciliation in which no call failed has finished, every
\* entry it found is still in the store, the open entries of teams held by
\* nobody are closed, and the open entries of teams still held are open.
C6_ClosesExactlyStaleEntries ==
    \A p \in Procs :
        (RecFinished(p) /\ tmp[p].failed = {}) =>
            \A f \in tmp[p].forums0 :
                /\ \E g \in forums : g.id = f.id /\ g.name = f.name
                /\ (f.open /\ f.name \notin tmp[p].roster) =>
                       [f EXCEPT !.open = FALSE] \in forums
                /\ (f.open /\ f.name \in tmp[p].roster) => f \in forums

\* The entries recording topic t.
EntriesOf(t) == {f \in forums : f.id = t.id}

\* C7: every channel a reconciliation allocated is recorded in exactly one
\* entry as soon as the creation that allocated it is over (only a channel
\* whose creation still waits at its INSERT is unrecorded), and a channel
\* is allocated for a team name only while that name has no open entry.
C7_NoOrphanNoDuplicate ==
    [][/\ \A t \in topics' :
             (\A p \in Procs : t \notin tmp'[p].created) =>
                 Cardinality(EntriesOf(t)') = 1
       /\ \A t \in topics' \ topics : OpenEntries(forums, t.name) = {}]_vars

(***************************************************************************)
(* Properties: Submission Pipeline                                         *)
(***************************************************************************)
\* The step writes no submission row and sends nothing to the judge chat.
WritesNothing == UNCHANGED <<submissions, forwards, prompts>>

\* Task p takes up a media message of user u.
Arrives(p, u) ==
    /\ pc[p] = "idle" /\ pc'[p] # "idle"
    /\ arg'[p].kind = "submit" /\ arg'[p].user = u

\* C8 as stated: a submission that meets the flag false goes to the
\* "disabled" reply and ends there with SubmissionsDisabled; none of its
\* steps writes a submission row or forwards or posts to the judge chat.
C8_DisabledGate ==
    [][\A p \in Procs :
          /\ \A u \in UserIds :
                (Arrives(p, u) /\ ~submissions_enabled) =>
                    pc'[p] = "sub_disabled" /\ WritesNothing
          /\ (pc[p] = "sub_disabled" /\ pc'[p] # "sub_disabled") =>
                    /\ pc'[p] = "idle"
                    /\ outcome' = "SubmissionsDisabled"
                    /\ WritesNothing]_vars

\* C8 amended: a submission that meets the flag false goes to the
\* "disabled" reply and ends there, with SubmissionsDisabled or, when the
\* reply cannot be sent, with ExternalTransportError (whatever the flag has
\* become in the meantime); none of its steps writes a submission row or
\* forwards or posts to the judge chat.
C8_DisabledGateOrReplyFails ==
    [][\A p \in Procs :
          /\ \A u \in UserIds :
                (Arrives(p, u) /\ ~submissions_enabled) =>
                    pc'[p] = "sub_disabled" /\ WritesNothing
          /\ (pc[p] = "sub_disabled" /\ pc'[p] # "sub_disabled") =>
                    /\ pc'[p] = "idle"
                    /\ outcome' \in {"SubmissionsDisabled",
                                     "ExternalTransportError"}
                    /\ WritesNothing]_vars

\* A message was turned away while earlier submissions are in the store.
C8_Witness ==
    /\ outcome = "SubmissionsDisabled"
    /\ ~submissions_enabled
    /\ nextMsg = 3
    /\ Cardinality(submissions) = 1

\* The challenges for which team holds a valid judgement on a submission
\* stored under that team.
ValidHeld(team) ==
    {c \in Challenges : \E j \in judgement :
        /\ j.challenge_name = c
        /\ j.valid
        /\ \E s \in submissions : s.message_id = j.submission_id /\ s.team = team}

\* The choices a prompt offers.
Choices(pr) == {b.choice : b \in pr.keyboard}

\* C9: the challenges Submit selects for its prompt include no challenge
\* for which the submitter's team holds a valid judgement when Submit
\* queries them, and the prompt it posts offers no other catalog challenge
\* than the selected ones.
C9_ValidChallengesNotOffered ==
    [][\A p \in Procs :
          /\ (pc[p] = "sub_remaining" /\ pc'[p] = "sub_prompt") =>
                 tmp'[p].remaining \cap ValidHeld(users[arg[p].user]) = {}
          /\ (pc[p] = "sub_prompt" /\ pc'[p] # "sub_prompt") =>
                 \A pr \in prompts' \ prompts :
                     Choices(pr) \cap Challenges \subseteq tmp[p].remaining]_vars

\* A prompt for a submission of one member omits a challenge that the
\* team holds through a valid judgement on another member's submission.
C9_Witness ==
    \E pr \in prompts : \E c \in Challenges : \E s \in submissions :
        /\ c \notin Choices(pr)
        /\ c \in ValidHeld(users[pr.associate])
        /\ s.team = users[pr.associate]
        /\ s.user # pr.associate
        /\ \E j \in JudgementsOf(s.message_id) : j.challenge_name = c /\ j.valid

\* C10: the challenges Submit selects for its prompt include every
\* catalog challenge for which the submitter's team holds no valid
\* judgement when Submit queries them, and the prompt it posts offers all
\* the selected ones and the two sentinels.
C10_UnheldChallengesOffered ==
    [][\A p \in Procs :
          /\ (pc[p] = "sub_remaining" /\ pc'[p] = "sub_prompt") =>
                 Challenges \ ValidHeld(users[arg[p].user])
                     \subseteq tmp'[p].remaining
          /\ (pc[p] = "sub_prompt" /\ pc'[p] # "sub_prompt") =>
                 \A pr \in prompts' \ prompts :
                     /\ tmp[p].remaining \subseteq Choices(pr)
                     /\ {"___unclear", "___invalid"} \subseteq Choices(pr)]_vars

(***************************************************************************)
(* Properties: roster changes and scores                                   *)
(***************************************************************************)
\* C11: a step that changes a participant's team (a /join_team) leaves
\* every Submission row as it is, so the team stored on the participant's
\* earlier submissions stays the one held when they were sent.
C11_JoinLeavesSubmissions ==
    [][users' # users => submissions' = submissions]_vars

\* A participant has moved to another team after a submission: the team
\* stored on the submission is no longer the participant's team.
C11_Witness ==
    \E r \in submissions :
        /\ users[r.user] # r.team
        /\ users[r.user] \in TeamNames

\* The score a leaderboard shows for team t (0 when t has no line).
BoardScore(board, t) ==
    IF \E e \in board : e.team = t
    THEN (CHOOSE e \in board : e.team = t).score
    ELSE 0

\* The valid judgements of the submissions whose submitter is on team t now.
LiveCredit(t) ==
    {j \in judgement :
        /\ j.valid /\ j.points > 0
        /\ \E r \in submissions : r.message_id = j.submission_id /\ users[r.user] = t}

\* The valid judgements of the submissions stored under team name t.
FrozenCredit(t) ==
    {j \in judgement :
        /\ j.valid /\ j.points > 0
        /\ \E r \in submissions : r.message_id = j.submission_id /\ r.team = t}

\* A "Scoreboard:" message carries the rows its handler queried.
BoardSentAsQueried ==
    reply'.kind = "scoreboard" =>
        \E p \in Procs : pc[p] = "scoreboard_reply" /\ pc'[p] = "idle"
                             /\ reply'.board = tmp[p].board

\* C12: the query of /scoreboard (whose rows are then sent) credits exactly
\* the teams on which the submitter of some valid judgement is now, and the
\* total /score computes for a participant is positive exactly when a
\* submitter of a valid judgement is now on the participant's team.
C12_LiveTeamAttribution ==
    [][/\ \A p \in Procs :
             (pc[p] = "idle" /\ pc'[p] = "scoreboard_reply") =>
                 \A t \in TeamNames :
                     BoardScore(tmp'[p].board, t) > 0 <=> LiveCredit(t) # {}
       /\ BoardSentAsQueried
       /\ \A p \in Procs :
             (pc[p] = "score_total" /\ pc'[p] = "score_count") =>
                 (tmp'[p].total > 0 <=> LiveCredit(users[arg[p].user]) # {})]_vars

\* No participant has changed team since submitting.
NobodyMoved == \A r \in submissions : users[r.user] = r.team

\* The points of the valid judgements of team t, each judgement once.
ValidPoints(t) == SumPoints({[j |-> j] : j \in FrozenCredit(t)})

\* C13: while nobody has changed team, the score the query of /scoreboard
\* yields for a team is the sum of the points of the team's valid
\* judgements, each counted once, whatever the number of members.
C13_EachJudgementCountedOnce ==
    [][\A p \in Procs :
          (pc[p] = "idle" /\ pc'[p] = "scoreboard_reply" /\ NobodyMoved) =>
              \A t \in TeamNames :
                  BoardScore(tmp'[p].board, t) = ValidPoints(t)]_vars

\* The members of team t.
Members(t) == {u \in UserIds : users[u] = t}

\* C14: while nobody has changed team, the query of /scoreboard yields,
\* for a team of one participant, one point for every submission of the
\* team whose latest judgement named a catalog challenge and nothing for a
\* submission whose latest judgement named a sentinel.
C14_LeaderboardFollowsRejudge ==
    [][\A p \in Procs :
          (pc[p] = "idle" /\ pc'[p] = "scoreboard_reply" /\ NobodyMoved) =>
              \A t \in TeamNames :
                  Cardinality(Members(t)) = 1 =>
                      BoardScore(tmp'[p].board, t) =
                          Cardinality({j \in judgement :
                              /\ j.challenge_name \in Challenges
                              /\ \E r \in submissions :
                                    /\ r.message_id = j.submission_id
                                    /\ r.team = t})]_vars


(***************************************************************************)
(* Properties: failures of Judge                                           *)
(***************************************************************************)
\* C15: a /judge whose lookups did not both resolve goes to its
\* not-found reply and never to judge(); when that reply is delivered, a
\* /judge whose id matched no submission ends with SubmissionNotFound, one
\* whose id matched a submission but whose challenge is neither a catalog
\* row nor a sentinel ends with ChallengeNotFound, and neither changes a
\* judgement row.  (A callback query resolves nothing: what it writes is
\* the subject of C31.)
C15_ResolutionFailures ==
    [][\A p \in Procs :
          /\ (pc[p] = "judge_challenge" /\ pc'[p] = "judge") =>
                 arg[p].user # 0 /\ ChallengeFound(arg[p].ch)
          /\ (pc[p] = "judge_notfound" /\ pc'[p] = "idle"
                 /\ outcome' # "ExternalTransportError") =>
                 /\ judgement' = judgement
                 /\ arg[p].user = 0 => outcome' = "SubmissionNotFound"
                 /\ (arg[p].user # 0 /\ ~ChallengeFound(arg[p].ch)) =>
                        outcome' = "ChallengeNotFound"]_vars

\* C16: a /judge that names both a missing submission and a missing
\* challenge reports SubmissionNotFound when its reply is delivered.
C16_SubmissionNotFoundFirst ==
    [][\A p \in Procs :
          (pc[p] = "judge_notfound" /\ pc'[p] = "idle"
             /\ outcome' # "ExternalTransportError"
             /\ arg[p].user = 0 /\ ~ChallengeFound(arg[p].ch)) =>
              outcome' = "SubmissionNotFound"]_vars

\* C17: every stored judgement of a sentinel has points 0 and is not
\* valid, every stored judgement of a catalog challenge has points 1 and is
\* valid.
C17_OutcomeMapping ==
    \A j \in judgement :
        /\ j.challenge_name \in {"___unclear", "___invalid"} =>
               j.points = 0 /\ ~j.valid
        /\ j.challenge_name \in Challenges => j.points = 1 /\ j.valid

\* C18: a Judge call whose feedback to the submitter could not be sent
\* still leaves its judgement written, returns without error and confirms
\* to the maintainer.
C18_FeedbackFailureSwallowed ==
    [][\A p \in Procs :
          (pc[p] \in {"judge_directive", "judge_reaction"} /\ pc'[p] = "idle") =>
              /\ \E j \in judgement' : j.submission_id = arg[p].msg
              /\ outcome' = "Ok"]_vars


(***************************************************************************)
(* Properties: failures inside a reconciliation, routing of a submission   *)
(***************************************************************************)
\* C19: when a reconciliation returns, it returns Ok, and whatever calls
\* failed for some teams, every other team that was due for creation has
\* its channel and entry and every other entry that was due for closing is
\* closed.
C19_FailureDoesNotAbortPass ==
    [][\A p \in Procs :
          (RecFinished(p) /\ pc'[p] = "idle") =>
              /\ outcome' = "Ok"
              /\ \A t \in forums_to_create(tmp[p].teams, tmp[p].forums0) :
                     t \notin tmp[p].failed =>
                         \E f \in forums' : \E c \in topics' :
                             f.name = t /\ c.id = f.id /\ c.name = t
              /\ \A f \in forums_to_close(tmp[p].teams, tmp[p].forums0) :
                     f.name \notin tmp[p].failed =>
                         \A g \in forums' : g.id = f.id => ~g.open]_vars

\* A reconciliation has finished in which the call for one team failed and
\* an open entry of another team, due for closing, was closed all the same.
C19_Witness ==
    \E p \in Procs :
        /\ RecFinished(p)
        /\ tmp[p].failed # {}
        /\ \E f \in forums_to_close(tmp[p].teams, tmp[p].forums0) :
               /\ f.open
               /\ f.name \notin tmp[p].failed
               /\ \E g \in forums : g.id = f.id /\ ~g.open


\* The team stored on submission m.
TeamOfSubmission(m) == {r.team : r \in {x \in submissions : x.message_id = m}}

\* thread is where Submit has to route for team t: the channel of the
\* team's open entry when there is one, no thread otherwise.
RoutedToOpenChannel(thread, t) ==
    IF OpenEntries(forums, t) # {}
    THEN thread \in {f.id : f \in OpenEntries(forums, t)}
    ELSE thread = NoForum

\* C20: the channel Submit looks up for its submission is the open entry of
\* the submission's team when the team has one at the lookup, and none
\* otherwise (never the channel of a closed entry); the forward goes into
\* the thread that was looked up and the prompt goes where the forward went.
C20_RoutedToOpenChannelOnly ==
    [][/\ \A p \in Procs :
              (pc[p] = "sub_reread" /\ pc'[p] = "sub_forward") =>
                  \A t \in TeamOfSubmission(arg[p].msg) :
                      RoutedToOpenChannel(tmp'[p].forum_id, t)
       /\ \A p \in Procs :
              (pc[p] = "sub_forward" /\ pc'[p] = "sub_notify") =>
                  forwards' \ forwards =
                      {[message_id |-> arg[p].msg, thread |-> tmp[p].forum_id]}
       /\ \A pr \in prompts' \ prompts :
              \E fw \in forwards :
                  fw.message_id = pr.reference /\ fw.thread = pr.thread]_vars


(***************************************************************************)
(* Properties: the steps of a submission                                   *)
(***************************************************************************)
\* C21: the INSERT of a submission (flag true, participant registered,
\* download done) adds exactly one row: its key is the id of the
\* participant's message, its submitter is the participant and its team is
\* the participant's team in the roster at that step.
C21_OneRowWithCurrentTeam ==
    [][\A p \in Procs :
          (pc[p] = "sub_insert" /\ pc'[p] = "sub_reread") =>
              LET row == [message_id |-> arg[p].msg, team |-> users[arg[p].user],
                          user |-> arg[p].user]
              IN  /\ row \notin submissions
                  /\ submissions' = submissions \cup {row}
                  /\ \A r \in submissions : r.message_id # arg[p].msg
                  /\ row.team \in TeamNames]_vars

\* Participant 1, who started on team A and moved to team B, has had a
\* submission inserted, and the row carries team B.
C21_Witness ==
    \E p \in Procs : \E r \in submissions :
        /\ pc[p] = "sub_reread"
        /\ r.message_id = arg[p].msg
        /\ r.user = arg[p].user
        /\ r.user = 1
        /\ r.team = TeamB
        /\ r.team = users[r.user]

\* C22 as stated: a submission of a participant without a team that meets
\* the flag false goes to the "disabled" reply, not to the roster lookup,
\* and ends there with SubmissionsDisabled; one that passed the flag and
\* whose sender the roster lookup meets without a team goes to the "not
\* part of a team" reply and ends there with NotRegistered; no step of
\* either writes a row or forwards or posts anything.
C22_GuardOrder ==
    [][\A p \in Procs :
          /\ \A u \in UserIds :
                (Arrives(p, u) /\ users[u] = NoTeam /\ ~submissions_enabled) =>
                    pc'[p] = "sub_disabled" /\ WritesNothing
          /\ (pc[p] = "sub_disabled" /\ pc'[p] # "sub_disabled") =>
                    /\ pc'[p] = "idle"
                    /\ outcome' = "SubmissionsDisabled"
                    /\ WritesNothing
          /\ (pc[p] = "sub_user" /\ pc'[p] # "sub_user"
                 /\ users[arg[p].user] = NoTeam) =>
                    pc'[p] = "sub_noteam" /\ WritesNothing
          /\ (pc[p] = "sub_noteam" /\ pc'[p] # "sub_noteam") =>
                    /\ pc'[p] = "idle"
                    /\ outcome' = "NotRegistered"
                    /\ WritesNothing]_vars

\* C22 amended: the same order of the guards, where each of the two
\* outcomes gives way to ExternalTransportError when the reply that
\* carries it cannot be sent, and the roster lookup itself may fail with
\* StoreError; in every case no row is written and nothing is forwarded or
\* posted.
C22_GuardOrderOrFailure ==
    [][\A p \in Procs :
          /\ \A u \in UserIds :
                (Arrives(p, u) /\ users[u] = NoTeam /\ ~submissions_enabled) =>
                    pc'[p] = "sub_disabled" /\ WritesNothing
          /\ (pc[p] = "sub_disabled" /\ pc'[p] # "sub_disabled") =>
                    /\ pc'[p] = "idle"
                    /\ outcome' \in {"SubmissionsDisabled",
                                     "ExternalTransportError"}
                    /\ WritesNothing
          /\ (pc[p] = "sub_user" /\ pc'[p] # "sub_user"
                 /\ users[arg[p].user] = NoTeam) =>
                    /\ \/ pc'[p] = "sub_noteam"
                       \/ pc'[p] = "idle" /\ outcome' = "StoreError"
                    /\ WritesNothing
          /\ (pc[p] = "sub_noteam" /\ pc'[p] # "sub_noteam") =>
                    /\ pc'[p] = "idle"
                    /\ outcome' \in {"NotRegistered", "ExternalTransportError"}
                    /\ WritesNothing]_vars

\* With the flag true, a participant without a team was turned away at the
\* registration check while a registered participant's submission is stored.
C22_Witness ==
    /\ outcome = "NotRegistered"
    /\ submissions_enabled
    /\ users[2] = NoTeam
    /\ nextMsg = 3
    /\ Cardinality(submissions) = 1


\* C23: a submission handler that fails after its INSERT (at the re-read,
\* the forward, the notification, the remaining-challenges query or the
\* prompt) leaves its row in the store as it was,
\* and the row can still be resolved by its id for judging.
C23_RowSurvivesLaterFailure ==
    [][\A p \in Procs :
          (pc[p] \in {"sub_reread", "sub_forward", "sub_notify", "sub_remaining",
                      "sub_prompt"}
             /\ pc'[p] = "idle" /\ outcome' # "Ok") =>
              /\ submissions' = submissions
              /\ Associate(submissions', arg[p].msg) = {arg[p].user}]_vars

\* A submission whose forward never reached the judge chat has been
\* judged by its id after its handler had failed.
C23_Witness ==
    \E r \in submissions :
        /\ \A fw \in forwards : fw.message_id # r.message_id
        /\ \A p \in Procs : arg[p].msg # r.message_id
        /\ JudgementsOf(r.message_id) # {}


(***************************************************************************)
(* Properties: the lock over time                                          *)
(***************************************************************************)
\* C24: the lock is held only by a task that is inside the reconciliation
\* (it is taken before the tables are read and given back on every way
\* out), and every task that waits for the lock to reconcile eventually
\* gets past the wait.
C24_LockReleasedAndEveryReconcileRuns ==
    /\ [](\A p \in Procs : lock = p => pc[p] \in RecLabels)
    /\ [](\A p \in Procs : pc[p] \in RecLabels => lock = p)
    /\ \A p \in Procs : (pc[p] = "lock_wait") ~> (pc[p] # "lock_wait")

\* A reconciliation requested by /update_team_forums holds the lock after
\* an earlier reconciliation has returned, while a join waits for it.
C24_Witness ==
    \E p, q \in Procs :
        /\ lock = p /\ pc[p] = "rec_run" /\ arg[p].kind = "update_team_forums"
        /\ tmp[p].forums0 # {}
        /\ pc[q] = "lock_wait" /\ arg[q].kind = "join_team"


(***************************************************************************)
(* Properties: the feedback of Judge                                       *)
(***************************************************************************)
Sentinels == {"___unclear", "___invalid"}

\* The positions of a task inside judge() and the caller's confirmation.
JudgeLabels == {"judge", "judge_directive", "judge_reaction", "judge_confirm"}

\* C25: what a Judge call has sent to the submitter after each of its
\* steps follows from the call's challenge alone.  A directive is sent only for a sentinel, it names that
\* sentinel and replies to the submission, and then the reactions of the
\* submission are erased; a heart is set only for a catalog challenge, on
\* the submission, with no text; a call that returns Ok has done the
\* reaction step.
C25_FeedbackByOutcome ==
    [][\A p \in Procs :
          (pc[p] \in JudgeLabels /\ pc'[p] # pc[p]) =>
              LET fb == IF pc'[p] = "idle" THEN tmp[p].feedback
                                           ELSE tmp'[p].feedback
                  ch == arg[p].ch
              IN  /\ fb.text # "none" =>
                         /\ ch \in Sentinels
                         /\ fb.text = (IF ch = "___unclear" THEN "unclear"
                                                             ELSE "invalid")
                         /\ fb.ref = arg[p].msg
                  /\ fb.reaction = "erase" =>
                         ch \in Sentinels /\ fb.text # "none" /\ fb.ref = arg[p].msg
                  /\ fb.reaction = "heart" =>
                         ch \in Challenges /\ fb.text = "none" /\ fb.ref = arg[p].msg
                  /\ outcome' = "Ok" =>
                         /\ fb.reaction = (IF ch \in Sentinels THEN "erase"
                                                                ELSE "heart")
                         /\ ch \in Sentinels => fb.text # "none"]_vars

\* A submission that was judged valid before has been re-judged unclear:
\* the directive was sent and the reactions were erased.
C25_Witness ==
    /\ outcome = "Ok"
    /\ reply.kind = "judged"
    /\ reply.feedback.text = "unclear"
    /\ reply.feedback.reaction = "erase"
    /\ \E j \in JudgementsOf(reply.feedback.ref) : j.points = 1


\* C30: the feedback a Judge call sends agrees with the stored judgement
\* of the submission: a heart is set only if the stored row is valid, a
\* directive is sent only if the stored row is not valid.
C30_FeedbackAgreesWithStoredRow ==
    [][\A p \in Procs :
          (pc[p] \in {"judge_directive", "judge_reaction"}
             /\ pc'[p] # pc[p]) =>
              \A j \in {x \in judgement' : x.submission_id = arg[p].msg} :
                  /\ reply'.feedback.reaction = "heart" => j.valid
                  /\ reply'.feedback.text # "none" => ~j.valid]_vars


(***************************************************************************)
(* Properties: the roster                                                  *)
(***************************************************************************)
\* C26 as stated: the binding of a participant is the name of their most
\* recent successful join, so a join that ends with an error leaves the
\* roster as it was.  Stated for the first call of a behaviour, when
\* nobody is bound yet: if that call is a join and ends with an error, its
\* participant still has no binding.
C26_FailedJoinLeavesBinding ==
    [][\A p \in Procs :
          (ops = 1 /\ pc[p] = "join_reply" /\ pc'[p] = "idle"
             /\ outcome' # "Ok") =>
              users'[arg[p].user] = NoTeam]_vars

\* C26 amended: every join with a non-blank name whose roster write
\* succeeds, whether or not the reply that follows it is delivered, binds
\* the participant to exactly that name in place of the old binding and
\* leaves every other participant's binding alone; a join whose roster
\* write fails and every other step leave the roster as it is.
C26_LastJoinWins ==
    [][/\ \A p \in Procs : \A u \in UserIds : \A team \in TeamInputs :
             JoinTeamUpsert(p, u, team) =>
                 \/ outcome' = "Panic" /\ users' = users
                 \/ /\ users'[u] = team
                    /\ \A v \in UserIds \ {u} : users'[v] = users[v]
                    /\ pc'[p] = "join_reply"
       /\ users' # users =>
             \E p \in Procs : \E u \in UserIds : \E team \in TeamInputs :
                 JoinTeamUpsert(p, u, team)]_vars

\* The only participant on the roster has joined a second team: the roster
\* holds the new name while the entry of the earlier team still exists.
C26_Witness ==
    \E p \in Procs :
        /\ pc[p] = "lock_wait" /\ arg[p].kind = "join_team"
        /\ users[arg[p].user] = arg[p].team
        /\ \A v \in UserIds \ {arg[p].user} : users[v] = NoTeam
        /\ \E f \in forums : f.name # arg[p].team


\* The arguments of /join_team that are empty or whitespace only.
BlankInputs == {team \in TeamInputs : \A i \in 1..Len(team) : team[i] = " "}

\* C27 as stated: a /join_team with a blank name ends with EmptyInput; the
\* roster, the topology and the lock stay as they were and no task starts
\* to wait for the lock or to reconcile.
C27_BlankJoinEndsEmptyInput ==
    [][\A p \in Procs : \A u \in UserIds : \A team \in BlankInputs :
          (JoinTeamBlank(p, u, team) \/ JoinTeamUpsert(p, u, team)) =>
              /\ outcome' = "EmptyInput"
              /\ users' = users
              /\ forums' = forums
              /\ topics' = topics
              /\ lock' = lock
              /\ pc' = pc]_vars

\* C27 amended: a /join_team with a blank name ends with EmptyInput or,
\* when the reply that asks for a name cannot be sent, with
\* ExternalTransportError; in both cases the roster, the topology and the
\* lock stay as they were and no task starts to wait for the lock or to
\* reconcile.
C27_BlankJoinChangesNothing ==
    [][\A p \in Procs : \A u \in UserIds : \A team \in BlankInputs :
          (JoinTeamBlank(p, u, team) \/ JoinTeamUpsert(p, u, team)) =>
              /\ outcome' \in {"EmptyInput", "ExternalTransportError"}
              /\ users' = users
              /\ forums' = forums
              /\ topics' = topics
              /\ lock' = lock
              /\ pc' = pc]_vars

\* A blank join was turned away while a participant is bound to a team
\* whose channel exists and nobody holds or awaits the lock.
C27_Witness ==
    /\ outcome = "EmptyInput"
    /\ \E u \in UserIds : \E f \in forums : users[u] = f.name /\ f.open
    /\ lock = NoProc
    /\ \A p \in Procs : pc[p] = "idle"


(***************************************************************************)
(* Properties: repeated and concurrent reconciliations                     *)
(***************************************************************************)
\* Topology fs is what a reconciliation with team set T leaves behind:
\* every team of T has an entry and no entry of another name is open.
Reconciled(T, fs) ==
    /\ \A t \in T : \E f \in fs : f.name = t
    /\ \A f \in fs : f.name \notin T => ~f.open

\* C28: a reconciliation in which no call failed leaves a topology that is
\* reconciled for the team set it read; a reconciliation that reads such a
\* topology again changes no entry and allocates no channel from its read
\* to its return (a closed entry stays closed under the same id), whether
\* the repeated close calls succeed or report an error; and it returns Ok.
C28_ReconcileIdempotent ==
    [][\A p \in Procs :
          /\ (RecFinished(p) /\ pc'[p] = "idle") =>
                 /\ outcome' = "Ok"
                 /\ tmp[p].failed = {} => Reconciled(tmp[p].teams, forums')
          /\ (pc[p] = "rec_run" /\ Reconciled(tmp[p].teams, tmp[p].forums0)) =>
                 /\ forums = tmp[p].forums0
                 /\ forums' = forums
                 /\ topics' = topics]_vars

\* A reconciliation that found a reconciled topology with an entry that
\* was already closed has gone through its close calls, one of which
\* reported an error.
C28_Witness ==
    \E p \in Procs :
        /\ RecFinished(p)
        /\ Reconciled(tmp[p].teams, tmp[p].forums0)
        /\ tmp[p].failed # {}
        /\ \E f \in tmp[p].forums0 : ~f.open /\ f.name \in tmp[p].failed


\* The team names that have an open entry.
OpenNames(fs) == {f.name : f \in {g \in fs : g.open}}

\* C29: with no external failure, whenever every join has returned the
\* team names with an open entry are exactly the names held by at least
\* one participant.
C29_QuiescentTopologyMatchesRoster ==
    (\A p \in Procs : pc[p] = "idle") => OpenNames(forums) = LiveTeams(users)


(***************************************************************************)
(* Properties: the judgement rows                                          *)
(***************************************************************************)
\* C31: every judgement row, written through /judge or through a callback
\* query, refers to the id of a stored submission and names a catalog
\* challenge or one of the two sentinels.
C31_JudgementRefersToSubmissionAndChallenge ==
    \A j \in judgement :
        /\ \E r \in submissions : r.message_id = j.submission_id
        /\ j.challenge_name \in Challenges \cup Sentinels


\* C32: every judgement row has points 0 or 1, and points 1 exactly when
\* it is valid.
C32_PointsIffValid ==
    \A j \in judgement : j.points \in {0, 1} /\ (j.points = 1 <=> j.valid)

\* A row has been re-judged: it was written as valid with one point and
\* now names a sentinel, or was written for a sentinel and now names a
\* catalog challenge.
C32_Witness ==
    \E j \in judgement :
        \/ j.challenge_name \in Sentinels /\ j.points = 1 /\ j.valid
        \/ j.challenge_name \in Challenges /\ j.points = 0 /\ ~j.valid


(***************************************************************************)
(* Properties: the entries of the channel topology                         *)
(***************************************************************************)

\* C33: the open flag of a channel topology entry only goes from open to
\* closed, and an entry's handle and team name never change after its
\* insertion: in every step, each entry is still there under the same
\* handle with the same team name (a changed handle or name would show as
\* the row being gone), and an entry that was closed is still closed.
C33_EntryOnlyCloses ==
    [][\A f \in forums :
          /\ \E g \in forums' : g.id = f.id
          /\ \A g \in forums' : g.id = f.id =>
                 /\ g.name = f.name
                 /\ ~f.open => ~g.open]_vars

\* A reconciliation that read a closed entry whose team name is held by a
\* participant again has finished with no failed call, and the entry is
\* there unchanged: still closed, same handle, same name.
C33_Witness ==
    \E p \in Procs :
        /\ RecFinished(p) /\ tmp[p].failed = {}
        /\ \E f \in tmp[p].forums0 :
               /\ ~f.open /\ f.name \in tmp[p].teams
               /\ f \in forums

====
